---- MODULE Spec2Model ----
(***************************************************************************)
(* Model of src/cargo/sources/git.rs: the git source of cargo.             *)
(*                                                                         *)
(* State: the remote repository (its branch tips), the filesystem at the   *)
(* mirror path and at the working-tree path, the GitSource configuration,  *)
(* and for every caller the position inside the operation it is running.   *)
(* Every git command and every filesystem call of the source is one step;  *)
(* each may fail (network, disk, killed process), and then the `try!` of   *)
(* the source returns the error to the caller at once.                     *)
(*                                                                         *)
(* A repository is abstracted to the set of commit objects it stores, the  *)
(* revisions its branches point to and, for a working tree, the revision   *)
(* its files are reset to.  Revisions are numbers; 0 is "no revision".     *)
(* Paths are flat: neither path is an ancestor of the other, and no        *)
(* enclosing directory is itself a git repository.                         *)
(***************************************************************************)
EXTENDS Integers, Sequences, FiniteSets, TLC

\* ---------------------------------------------------------------- bounds

MaxRev == 2

MaxReq == 2

\* ------------------------------------------------------------ value sets

NoRev == 0

Revs == 1..MaxRev

RefNames == {"master", "dev"}

Paths == {"db", "co"}

Url == "url"

NoDb == [none |-> TRUE]

\* ------------------------------------------------------------ GitReference

Master == [tag |-> "Master"]

Other(string) == [tag |-> "Other", string |-> string]

\* for_str without the case for the primary branch
for_str_never_master(string) == Other(string)

for_str(string) == IF string = "master" THEN Master ELSE Other(string)

as_slice(reference) == IF reference.tag = "Master" THEN "master" ELSE reference.string

\* ------------------------------------------------------------- directories

Absent == [kind |-> "absent", stale |-> FALSE, refs |-> [r \in RefNames |-> NoRev],
           objs |-> {}, head |-> NoRev]

\* a directory that is not a repository; stale = it has content
PlainDir(stale) == [Absent EXCEPT !.kind = "dir", !.stale = stale]

exists(dir) == dir.kind # "absent"

\* location.join(".git").exists(): only a non-bare repository has the marker
has_marker(dir) == dir.kind = "work"

IsEmptyOrAbsent(dir) == dir.kind = "absent" \/ (dir.kind = "dir" /\ ~dir.stale)

Tips(refs) == {refs[r] : r \in RefNames} \ {NoRev}

\* ------------------------------------------------------------ git commands
\* Each command is given as: the condition under which git can succeed, and
\* the directory it leaves on success.

\* git fetch --force --quiet --tags URL refs/heads/*:refs/heads/*  (cwd = mirror)
\* every branch of the remote is forced to the remote's tip; branches the
\* remote no longer has are kept (no --prune).
CanFetchInto(dir) == dir.kind = "bare"

\* the fetch without the refs/heads/*:refs/heads/* refspec: objects arrive,
\* the branches of the mirror stay where they were
FetchIntoResult_norefspec(dir, rem) ==
    [dir EXCEPT !.objs = dir.objs \cup Tips(rem)]

FetchIntoResult(dir, rem) ==
    [dir EXCEPT !.refs = [r \in RefNames |-> IF rem[r] # NoRev THEN rem[r] ELSE dir.refs[r]],
                !.objs = dir.objs \cup Tips(rem)]

\* git clone URL path --bare --no-hardlinks --quiet  (into an empty directory)
CanCloneBare(dir) == IsEmptyOrAbsent(dir)

CloneBareResult(rem) ==
    [Absent EXCEPT !.kind = "bare", !.refs = rem, !.objs = Tips(rem)]

\* git rev-parse REF  (cwd = mirror): exit status and stdout.
\* On failure git echoes the argument and exits non-zero.
RevParse(dir, name) ==
    IF dir.kind \in {"bare", "work"} /\ dir.refs[name] # NoRev
    THEN [status |-> 0, output |-> <<[rev |-> dir.refs[name]], [ws |-> "\n"]>>]
    ELSE [status |-> 128, output |-> <<[txt |-> name], [ws |-> "\n"]>>]

\* a clone that replaces whatever is at the destination
CanCloneWork_overwrites(srcdir, dstdir) == srcdir.kind = "bare"

\* git clone --no-checkout --quiet SOURCE LOCATION: a local clone takes the
\* object store of the source; no files are checked out.
CanCloneWork(srcdir, dstdir) == srcdir.kind = "bare" /\ IsEmptyOrAbsent(dstdir)

CloneWorkResult(srcdir) ==
    [Absent EXCEPT !.kind = "work", !.objs = srcdir.objs]

\* git fetch --force --quiet --tags SOURCE (cwd = location): no refspec, so
\* the HEAD of the source (its primary branch) is fetched.
CanFetchWork(srcdir, dstdir) ==
    dstdir.kind = "work" /\ srcdir.kind = "bare" /\ srcdir.refs["master"] # NoRev

FetchWorkResult(srcdir, dstdir) ==
    [dstdir EXCEPT !.objs = dstdir.objs \cup {srcdir.refs["master"]}]

\* git reset -q --hard REVISION (cwd = location): needs the commit object
CanReset(dir, rev) == dir.kind = "work" /\ rev # NoRev /\ rev \in dir.objs

\* a reset that moves no file (as --soft does)
ResetResult_soft(dir, rev) == dir

\* a merge instead of a hard reset: files already checked out stay
ResetResult_merge(dir, rev) == IF dir.head = NoRev THEN [dir EXCEPT !.head = rev] ELSE dir

ResetResult(dir, rev) == [dir EXCEPT !.head = rev]

\* git submodule update --init --recursive --quiet (cwd = location): the
\* files of the checkout itself are left as they are
CanSubmodule(dir) == dir.kind = "work"

\* ------------------------------------------------------- results and errors

Ok(v) == [ok |-> TRUE, val |-> v]

Err(e) == [ok |-> FALSE, err |-> e]

Unit == <<>>

ProcessError(cmd) == [kind |-> "process", cmd |-> cmd]

io_error(what) == [kind |-> "io", what |-> what]

human_error(msg, cause) == [kind |-> "human", msg |-> msg, cause |-> cause]

\* the process could not be run or exited non-zero for an outside reason
Killed == [status |-> 1, output |-> <<>>]

Exited0 == [status |-> 0, output |-> <<>>]

IsWhite(tok) == "ws" \in DOMAIN tok

RECURSIVE trim_right(_)
trim_right(out) ==
    IF out = <<>> THEN <<>>
    ELSE IF IsWhite(out[Len(out)]) THEN trim_right(SubSeq(out, 1, Len(out) - 1))
    ELSE out

\* fn git_inherit: Ok(()) iff the process exits with status 0
git_inherit(proc, cmd) ==
    IF proc.status = 0 THEN Ok(Unit)
    ELSE Err(human_error(<<"Couldn't execute git", cmd, "with reason">>, ProcessError(cmd)))

\* git_output that does not look at the exit status
git_output_ignores_status(proc, cmd) == Ok(trim_right(proc.output))

\* fn git_output: the trimmed stdout iff the process exits with status 0
git_output(proc, cmd) ==
    IF proc.status = 0 THEN Ok(trim_right(proc.output))
    ELSE Err(human_error(<<"Couldn't execute git", cmd>>, ProcessError(cmd)))

\* the commit a revision string names, if it names one
RevOf(revision) ==
    IF Len(revision) = 1 /\ "rev" \in DOMAIN revision[1] THEN revision[1].rev ELSE NoRev

\* ---------------------------------------------------------------- packages

NameVers == { [name |-> "foo", version |-> "1.0.0"],
              [name |-> "bar", version |-> "1.0.0"] }

\* the manifest committed at a revision: every third revision has none that parses
PackageAt(rev) ==
    IF rev % 3 = 1 THEN Ok([name |-> "foo", version |-> "1.0.0"])
    ELSE IF rev % 3 = 2 THEN Ok([name |-> "foo", version |-> "2.0.0"])
    ELSE Err(human_error(<<"invalid manifest">>, io_error("Cargo.toml")))

\* ops::read_manifest(path.join("Cargo.toml"))
read_manifest(dir) ==
    IF dir.kind = "work" /\ dir.head # NoRev THEN PackageAt(dir.head)
    ELSE Err(human_error(<<"no manifest">>, io_error("Cargo.toml")))

is_for_name_ver(pkg, nv) == pkg.name = nv.name /\ pkg.version = nv.version

get_summary(pkg) == [summary |-> pkg]

\* packages.iter().any(|nv| ...)
RECURSIVE any(_, _)
any(packages, pkg) ==
    IF packages = <<>> THEN FALSE
    ELSE is_for_name_ver(pkg, Head(packages)) \/ any(Tail(packages), pkg)

ReqSeqs == UNION { [1..n -> NameVers] : n \in 0..MaxReq }

\* ------------------------------------------------------------------- state

VARIABLES
    remote,    \* the remote repository: branch name -> tip revision (NoRev: no such branch)
    nextRev,   \* the next commit the remote will receive
    fs,        \* path -> directory
    source,    \* the GitSource: remote, reference, db_path, checkout_path
    callers,   \* the callers that use the source
    st,        \* caller -> the call it is running or has last returned from, with
               \*           what it observed: whether the mirror existed when the
               \*           call was made, whether the marker was there when the
               \*           checkout was constructed, the remote it fetched from
    prev,      \* caller -> the call it returned from before that one, kept
               \*           while the current call repeats it
    db,        \* caller -> the GitDatabase it holds from its last Remote.checkout
    hist       \* caller -> the revision of its last successful copy_to of the
               \*           primary branch, and whether the remote advanced since

vars == <<remote, nextRev, fs, source, callers, st, prev, db, hist>>

AllCallers == {1, 2}

NoCheckout == [none |-> TRUE]

NoSnapshot == [r \in RefNames |-> NoRev]

Pending == [ok |-> FALSE, pending |-> TRUE]

NoAt == [tip |-> NoRev, prevDefault |-> <<>>, advanced |-> FALSE, fresh |-> FALSE]

NoCall ==
    [op |-> "none", pc |-> "done", ret |-> Pending, reference |-> "", repo |-> NoDb,
     checkout |-> NoCheckout, req |-> <<>>, cmds |-> <<>>, injected |-> FALSE,
     existed |-> "unknown", marker |-> "unknown", seen |-> NoSnapshot,
     at |-> NoAt]

into == source.db_path

location == source.checkout_path

\* GitDatabase { remote: self.clone(), path: into.clone(), verbose: self.verbose }
GitDatabase == [remote |-> source.remote, path |-> into, verbose |-> source.remote.verbose]

\* GitCheckout { location, database, reference, revision, verbose }
GitCheckout(database, reference, revision) ==
    [location |-> location, database |-> database, reference |-> reference,
     revision |-> revision, verbose |-> database.verbose]

\* a call of Remote.checkout or Database.copy_to that directly follows a call
\* of the same operation with the same arguments
Repeats(call, last) ==
    /\ call.op \in {"checkout", "copy_to"}
    /\ call.op = last.op
    /\ call.reference = last.reference

\* what is kept of a call while the next one repeats it
Summary(s) ==
    [op |-> s.op, ok |-> s.ret.ok, reference |-> s.reference,
     revision |-> IF s.checkout = NoCheckout THEN <<>> ELSE s.checkout.revision,
     existed |-> s.existed, cmds |-> s.cmds, seen |-> s.seen]

Init0 ==
    /\ remote = [r \in RefNames |-> IF r = "master" THEN 1 ELSE NoRev]
    /\ nextRev = 2
    /\ fs \in [Paths -> {Absent, PlainDir(TRUE)}]
    /\ \E ref \in RefNames, co \in Paths :
           source = [remote |-> [url |-> Url, verbose |-> FALSE],
                     reference |-> for_str(ref),
                     db_path |-> "db", checkout_path |-> co, verbose |-> FALSE]
    /\ st = [c \in AllCallers |-> NoCall]
    /\ prev = [c \in AllCallers |-> Summary(NoCall)]
    /\ db = [c \in AllCallers |-> NoDb]
    /\ hist = [c \in AllCallers |-> [defaultRev |-> <<>>, advanced |-> FALSE]]

Init == Init0 /\ callers = {1}

\* ----------------------------------------------------------------- helpers

Idle(c) == c \in callers /\ st[c].pc = "done"

At(c, label) == c \in callers /\ st[c].pc = label

\* the record of a call that starts now
Begin(c, op, reference) ==
    [NoCall EXCEPT !.op = op, !.reference = reference,
        !.existed = IF op \in {"update", "checkout"}
                    THEN (IF exists(fs[into]) THEN "yes" ELSE "no") ELSE "unknown",
        !.at = IF op = "copy_to" /\ for_str(reference) = Master
               THEN [tip |-> remote["master"],
                     prevDefault |-> hist[c].defaultRev,
                     advanced |-> hist[c].advanced,
                     fresh |-> fs[into].kind = "bare" /\ fs[into].refs["master"] = remote["master"]]
               ELSE NoAt]

Log(s, cmd, fail) == [s EXCEPT !.cmds = Append(@, cmd), !.injected = @ \/ fail]

Return(s, r) == [s EXCEPT !.pc = "done", !.ret = r]

Goto(s, label) == [s EXCEPT !.pc = label]

Start(c, call) ==
    /\ st' = [st EXCEPT ![c] = call]
    /\ prev' = [prev EXCEPT ![c] = IF Repeats(call, st[c])
                                    THEN Summary(st[c]) ELSE Summary(NoCall)]

Proc(fail, can) == IF ~fail /\ can THEN Exited0 ELSE Killed

\* --------------------------------------------------------- the environment

\* somebody pushes a new commit to a branch of the remote (or creates the branch)
RemoteAdvance(r) ==
    /\ nextRev <= MaxRev
    /\ remote' = [remote EXCEPT ![r] = nextRev]
    /\ nextRev' = nextRev + 1
    /\ hist' = IF r = "master"
               THEN [c \in AllCallers |-> [hist[c] EXCEPT !.advanced = (hist[c].defaultRev # <<>>)]]
               ELSE hist
    /\ UNCHANGED <<fs, source, callers, st, prev, db>>

\* somebody deletes a branch other than the primary one
RemoteDelete(r) ==
    /\ r # "master"
    /\ remote[r] # NoRev
    /\ remote' = [remote EXCEPT ![r] = NoRev]
    /\ UNCHANGED <<nextRev, fs, source, callers, st, prev, db, hist>>

\* ------------------------------------------------------- calls of the API

CallUpdate(c) ==
    /\ Idle(c)
    /\ Start(c, Goto(Begin(c, "update", as_slice(source.reference)), "checkout"))
    /\ UNCHANGED <<remote, nextRev, fs, source, callers, db, hist>>

CallCheckout(c) ==
    /\ Idle(c)
    /\ Start(c, Goto(Begin(c, "checkout", ""), "checkout"))
    /\ UNCHANGED <<remote, nextRev, fs, source, callers, db, hist>>

CallCopyTo(c, reference) ==
    /\ Idle(c)
    /\ db[c] # NoDb
    /\ Start(c, [Goto(Begin(c, "copy_to", reference), "rev_for") EXCEPT !.repo = db[c]])
    /\ UNCHANGED <<remote, nextRev, fs, source, callers, db, hist>>

\* --------------------------------------------------------------- GitRemote

\* checkout with the test inverted
checkout_inverted(c) ==
    /\ At(c, "checkout")
    /\ st' = [st EXCEPT ![c] =
                 IF ~exists(fs[into]) THEN Goto(@, "fetch_into") ELSE Goto(@, "clone_into")]
    /\ UNCHANGED <<remote, nextRev, fs, source, callers, prev, db, hist>>

\* checkout that clones whether or not the mirror is there
checkout_always_clone(c) ==
    /\ At(c, "checkout")
    /\ st' = [st EXCEPT ![c] = Goto(@, "clone_into")]
    /\ UNCHANGED <<remote, nextRev, fs, source, callers, prev, db, hist>>

\* checkout that waits while another caller is working on the mirror
checkout_locked(c) ==
    /\ At(c, "checkout")
    /\ \A d \in callers \ {c} : st[d].pc \notin {"fetch_into", "clone_into", "clone_into_git"}
    /\ st' = [st EXCEPT ![c] =
                 IF exists(fs[into]) THEN Goto(@, "fetch_into") ELSE Goto(@, "clone_into")]
    /\ UNCHANGED <<remote, nextRev, fs, source, callers, prev, db, hist>>

\* checkout: if into.exists() { fetch_into } else { clone_into }
checkout(c) ==
    /\ At(c, "checkout")
    /\ st' = [st EXCEPT ![c] =
                 IF exists(fs[into]) THEN Goto(@, "fetch_into") ELSE Goto(@, "clone_into")]
    /\ UNCHANGED <<remote, nextRev, fs, source, callers, prev, db, hist>>

\* checkout: Ok(GitDatabase { .. }); update goes on with copy_to
checkout_ok(c, s) ==
    IF s.op = "update"
    THEN /\ st' = [st EXCEPT ![c] = [Goto(s, "rev_for") EXCEPT !.repo = GitDatabase, !.seen = remote]]
         /\ db' = db
    ELSE /\ st' = [st EXCEPT ![c] = [Return(s, Ok(GitDatabase)) EXCEPT !.repo = GitDatabase, !.seen = remote]]
         /\ db' = [db EXCEPT ![c] = GitDatabase]

fetch_into(c) ==
    /\ At(c, "fetch_into")
    /\ \E fail \in BOOLEAN :
         LET s == Log(st[c], "fetch_into", fail)
             r == git_inherit(Proc(fail, CanFetchInto(fs[into])), "fetch")
         IN  IF r.ok
             THEN /\ fs' = [fs EXCEPT ![into] = FetchIntoResult(@, remote)]
                  /\ checkout_ok(c, s)
             ELSE /\ fs' \in {fs} \cup
                        (IF CanFetchInto(fs[into])
                         THEN {[fs EXCEPT ![into] = FetchIntoResult(@, remote)]} ELSE {})
                  /\ st' = [st EXCEPT ![c] = Return(s, r)]
                  /\ db' = db
    /\ UNCHANGED <<remote, nextRev, source, callers, prev, hist>>

\* clone_into that creates the parent of the path only
clone_into_mkdir_parent(c) ==
    /\ At(c, "clone_into")
    /\ \E fail \in BOOLEAN :
         LET s == Log(st[c], "mkdir_mirror", fail)
         IN  st' = [st EXCEPT ![c] =
                 IF ~fail THEN Goto(s, "clone_into_git")
                 ELSE Return(s, Err(human_error(<<"Couldn't recursively create", into>>,
                                                io_error("mkdir"))))]
    /\ UNCHANGED <<remote, nextRev, fs, source, callers, prev, db, hist>>

\* clone_into: mkdir_recursive(path, UserDir)
clone_into_mkdir(c) ==
    /\ At(c, "clone_into")
    /\ \E fail \in BOOLEAN :
         LET s == Log(st[c], "mkdir_mirror", fail)
         IN  IF ~fail
             THEN /\ fs' = [fs EXCEPT ![into] = IF exists(@) THEN @ ELSE PlainDir(FALSE)]
                  /\ st' = [st EXCEPT ![c] = Goto(s, "clone_into_git")]
             ELSE /\ fs' = fs
                  /\ st' = [st EXCEPT ![c] =
                        Return(s, Err(human_error(<<"Couldn't recursively create", into>>,
                                                  io_error("mkdir"))))]
    /\ UNCHANGED <<remote, nextRev, source, callers, prev, db, hist>>

\* clone_into: git clone URL path --bare --no-hardlinks --quiet
clone_into_git(c) ==
    /\ At(c, "clone_into_git")
    /\ \E fail \in BOOLEAN :
         LET s == Log(st[c], "clone_bare", fail)
             r == git_inherit(Proc(fail, CanCloneBare(fs[into])), "clone --bare")
         IN  IF r.ok
             THEN /\ fs' = [fs EXCEPT ![into] = CloneBareResult(remote)]
                  /\ checkout_ok(c, s)
             ELSE /\ fs' = fs
                  /\ st' = [st EXCEPT ![c] = Return(s, r)]
                  /\ db' = db
    /\ UNCHANGED <<remote, nextRev, source, callers, prev, hist>>

\* ------------------------------------------------- GitDatabase, GitCheckout

\* GitDatabase::rev_for: git rev-parse REFERENCE with cwd = the mirror
rev_for(database, reference, fail) ==
    git_output(IF fail THEN Killed ELSE RevParse(fs[database.path], reference), "rev-parse")

\* a call that returns: copy_to returns the checkout, update returns ()
copy_to_ok(c, s) ==
    /\ st' = [st EXCEPT ![c] = Return(s, IF s.op = "update" THEN Ok(Unit) ELSE Ok(s.checkout))]
    /\ hist' = IF s.checkout.reference = Master
               THEN [hist EXCEPT ![c] = [defaultRev |-> s.checkout.revision, advanced |-> FALSE]]
               ELSE hist

\* clone_into that creates the location before it resolves the reference
clone_into_rev_for_mkdir_first(c) ==
    /\ At(c, "rev_for")
    /\ \E fail \in BOOLEAN :
         LET s == [Log(st[c], "rev-parse", fail) EXCEPT
                      !.marker = IF has_marker(fs[location]) THEN "yes" ELSE "no"]
             reference == for_str(s.reference)
             r == rev_for(s.repo, as_slice(reference), fail)
         IN  st' = [st EXCEPT ![c] =
                 IF r.ok
                 THEN [Goto(s, "marker") EXCEPT !.checkout = GitCheckout(s.repo, reference, r.val)]
                 ELSE Return(s, r)]
    /\ fs' = [fs EXCEPT ![location] = IF exists(@) THEN @ ELSE PlainDir(FALSE)]
    /\ UNCHANGED <<remote, nextRev, source, callers, prev, db, hist>>

\* GitCheckout::clone_into: let revision = try!(database.rev_for(..)); the checkout value
clone_into_rev_for(c) ==
    /\ At(c, "rev_for")
    /\ \E fail \in BOOLEAN :
         LET s == [Log(st[c], "rev-parse", fail) EXCEPT
                      !.marker = IF has_marker(fs[location]) THEN "yes" ELSE "no"]
             reference == for_str(s.reference)
             r == rev_for(s.repo, as_slice(reference), fail)
         IN  st' = [st EXCEPT ![c] =
                 IF r.ok
                 THEN [Goto(s, "marker") EXCEPT !.checkout = GitCheckout(s.repo, reference, r.val)]
                 ELSE Return(s, r)]
    /\ UNCHANGED <<remote, nextRev, fs, source, callers, prev, db, hist>>

\* clone_into without the test for the marker
clone_into_marker_always_clones(c) ==
    /\ At(c, "marker")
    /\ st' = [st EXCEPT ![c] = Goto(@, "clone_repo")]
    /\ UNCHANGED <<remote, nextRev, fs, source, callers, prev, db, hist>>

\* GitCheckout::clone_into: if !checkout.location.join(".git").exists() { clone_repo }
clone_into_marker(c) ==
    /\ At(c, "marker")
    /\ st' = [st EXCEPT ![c] =
                 IF ~has_marker(fs[st[c].checkout.location])
                 THEN Goto(@, "clone_repo") ELSE Goto(@, "fetch")]
    /\ UNCHANGED <<remote, nextRev, fs, source, callers, prev, db, hist>>

\* clone_repo: mkdir_recursive(&dirname, UserDir), the parent of location
clone_repo_mkdir(c) ==
    /\ At(c, "clone_repo")
    /\ \E fail \in BOOLEAN :
         LET s == Log(st[c], "mkdir_parent", fail)
         IN  st' = [st EXCEPT ![c] =
                 IF ~fail THEN Goto(s, "clone_repo_rmdir")
                 ELSE Return(s, Err(human_error(<<"Couldn't mkdir", s.checkout.location>>,
                                                io_error("mkdir"))))]
    /\ UNCHANGED <<remote, nextRev, fs, source, callers, prev, db, hist>>

\* clone_repo that removes the location without asking whether it exists
clone_repo_rmdir_always(c) ==
    /\ At(c, "clone_repo_rmdir")
    /\ LET loc == st[c].checkout.location
       IN  \E fail \in BOOLEAN :
             LET s == Log(st[c], "rmdir", fail)
             IN  IF ~fail /\ exists(fs[loc])
                 THEN /\ fs' = [fs EXCEPT ![loc] = Absent]
                      /\ st' = [st EXCEPT ![c] = Goto(s, "clone_repo_git")]
                 ELSE /\ fs' = fs
                      /\ st' = [st EXCEPT ![c] =
                            Return(s, Err(human_error(<<"Couldn't rmdir", loc>>,
                                                      io_error("rmdir"))))]
    /\ UNCHANGED <<remote, nextRev, source, callers, prev, db, hist>>

\* clone_repo: if self.location.exists() { rmdir_recursive(&self.location) }
clone_repo_rmdir(c) ==
    /\ At(c, "clone_repo_rmdir")
    /\ LET loc == st[c].checkout.location
       IN  IF exists(fs[loc])
           THEN \E fail \in BOOLEAN :
                  LET s == Log(st[c], "rmdir", fail)
                  IN  IF ~fail
                      THEN /\ fs' = [fs EXCEPT ![loc] = Absent]
                           /\ st' = [st EXCEPT ![c] = Goto(s, "clone_repo_git")]
                      ELSE /\ fs' \in {fs, [fs EXCEPT ![loc] = PlainDir(TRUE)]}
                           /\ st' = [st EXCEPT ![c] =
                                 Return(s, Err(human_error(<<"Couldn't rmdir", loc>>,
                                                           io_error("rmdir"))))]
           ELSE /\ fs' = fs
                /\ st' = [st EXCEPT ![c] = Goto(@, "clone_repo_git")]
    /\ UNCHANGED <<remote, nextRev, source, callers, prev, db, hist>>

\* clone_repo: git clone --no-checkout --quiet SOURCE LOCATION
clone_repo_git(c) ==
    /\ At(c, "clone_repo_git")
    /\ \E fail \in BOOLEAN :
         LET s == Log(st[c], "clone", fail)
             loc == s.checkout.location
             src == s.checkout.database.path
             r == git_inherit(Proc(fail, CanCloneWork(fs[src], fs[loc])), "clone --no-checkout")
         IN  IF r.ok
             THEN /\ fs' = [fs EXCEPT ![loc] = CloneWorkResult(fs[src])]
                  /\ st' = [st EXCEPT ![c] = Goto(s, "clone_repo_chmod")]
             ELSE /\ fs' \in {fs} \cup
                        (IF IsEmptyOrAbsent(fs[loc])
                         THEN {[fs EXCEPT ![loc] = PlainDir(TRUE)]} ELSE {})
                  /\ st' = [st EXCEPT ![c] = Return(s, r)]
    /\ UNCHANGED <<remote, nextRev, source, callers, prev, db, hist>>

\* clone_repo: chmod(&self.location, AllPermissions)
clone_repo_chmod(c) ==
    /\ At(c, "clone_repo_chmod")
    /\ \E fail \in BOOLEAN :
         LET s == Log(st[c], "chmod", fail)
         IN  st' = [st EXCEPT ![c] =
                 IF ~fail /\ exists(fs[s.checkout.location]) THEN Goto(s, "fetch")
                 ELSE Return(s, Err(io_error("chmod")))]
    /\ UNCHANGED <<remote, nextRev, fs, source, callers, prev, db, hist>>

\* GitCheckout::fetch: git fetch --force --quiet --tags SOURCE
fetch(c) ==
    /\ At(c, "fetch")
    /\ \E fail \in BOOLEAN :
         LET s == Log(st[c], "fetch", fail)
             loc == s.checkout.location
             src == s.checkout.database.path
             can == CanFetchWork(fs[src], fs[loc])
             r == git_inherit(Proc(fail, can), "fetch")
         IN  IF r.ok
             THEN /\ fs' = [fs EXCEPT ![loc] = FetchWorkResult(fs[src], @)]
                  /\ st' = [st EXCEPT ![c] = Goto(s, "reset")]
             ELSE /\ fs' \in {fs} \cup
                        (IF can THEN {[fs EXCEPT ![loc] = FetchWorkResult(fs[src], @)]} ELSE {})
                  /\ st' = [st EXCEPT ![c] = Return(s, r)]
    /\ UNCHANGED <<remote, nextRev, source, callers, prev, db, hist>>

\* fetch that resets to what was just fetched (the head of the mirror)
\* and not to the revision of the checkout
reset_fetch_head(c) ==
    /\ At(c, "reset")
    /\ \E fail \in BOOLEAN :
         LET s == Log(st[c], "reset", fail)
             loc == s.checkout.location
             rev == fs[s.checkout.database.path].refs["master"]
             r == git_inherit(Proc(fail, CanReset(fs[loc], rev)), "reset --hard")
         IN  IF r.ok
             THEN /\ fs' = [fs EXCEPT ![loc] = ResetResult(@, rev)]
                  /\ st' = [st EXCEPT ![c] = Goto(s, "update_submodules")]
             ELSE /\ fs' = fs
                  /\ st' = [st EXCEPT ![c] = Return(s, r)]
    /\ UNCHANGED <<remote, nextRev, source, callers, prev, db, hist>>

\* fetch that drops the result of the reset and goes on
reset_unchecked(c) ==
    /\ At(c, "reset")
    /\ \E fail \in BOOLEAN :
         LET s == Log(st[c], "reset", fail)
             loc == s.checkout.location
             rev == RevOf(s.checkout.revision)
             r == git_inherit(Proc(fail, CanReset(fs[loc], rev)), "reset --hard")
         IN  /\ fs' = IF r.ok THEN [fs EXCEPT ![loc] = ResetResult(@, rev)] ELSE fs
             /\ st' = [st EXCEPT ![c] = Goto(s, "update_submodules")]
    /\ UNCHANGED <<remote, nextRev, source, callers, prev, db, hist>>

\* GitCheckout::fetch: try!(self.reset(self.revision)): git reset -q --hard REVISION
reset(c) ==
    /\ At(c, "reset")
    /\ \E fail \in BOOLEAN :
         LET s == Log(st[c], "reset", fail)
             loc == s.checkout.location
             rev == RevOf(s.checkout.revision)
             r == git_inherit(Proc(fail, CanReset(fs[loc], rev)), "reset --hard")
         IN  IF r.ok
             THEN /\ fs' = [fs EXCEPT ![loc] = ResetResult(@, rev)]
                  /\ st' = [st EXCEPT ![c] = Goto(s, "update_submodules")]
             ELSE /\ fs' \in {fs} \cup
                        (IF fs[loc].kind = "work"
                         THEN {[fs EXCEPT ![loc] = [@ EXCEPT !.head = NoRev]]}
                         ELSE {})
                  /\ st' = [st EXCEPT ![c] = Return(s, r)]
    /\ UNCHANGED <<remote, nextRev, source, callers, prev, db, hist>>

\* GitCheckout::update_submodules, then copy_to returns the checkout
update_submodules(c) ==
    /\ At(c, "update_submodules")
    /\ \E fail \in BOOLEAN :
         LET s == Log(st[c], "submodule", fail)
             loc == s.checkout.location
             r == git_inherit(Proc(fail, CanSubmodule(fs[loc])), "submodule update")
         IN  IF r.ok
             THEN copy_to_ok(c, s)
             ELSE /\ st' = [st EXCEPT ![c] = Return(s, r)]
                  /\ hist' = hist
    /\ UNCHANGED <<remote, nextRev, fs, source, callers, prev, db>>

\* ------------------------------------------------- impl Source for GitSource

\* list that first creates the working-tree directory when it is missing
list_creates_checkout(c) ==
    /\ Idle(c)
    /\ LET pkg == read_manifest(fs[source.checkout_path])
       IN  Start(c, Return(Begin(c, "list", ""),
                           IF pkg.ok THEN Ok(<<get_summary(pkg.val)>>) ELSE pkg))
    /\ fs' = IF exists(fs[source.checkout_path]) THEN fs
             ELSE [fs EXCEPT ![source.checkout_path] = PlainDir(FALSE)]
    /\ UNCHANGED <<remote, nextRev, source, callers, db, hist>>

list(c) ==
    /\ Idle(c)
    /\ LET pkg == read_manifest(fs[source.checkout_path])
       IN  Start(c, Return(Begin(c, "list", ""),
                           IF pkg.ok THEN Ok(<<get_summary(pkg.val)>>) ELSE pkg))
    /\ UNCHANGED <<remote, nextRev, fs, source, callers, db, hist>>

\* download that needs the manifest of the working tree to be readable
download_reads_manifest(c, packages) ==
    /\ Idle(c)
    /\ LET pkg == read_manifest(fs[source.checkout_path])
       IN  Start(c, Return(Begin(c, "download", ""),
                           IF pkg.ok THEN Ok(Unit) ELSE pkg))
    /\ UNCHANGED <<remote, nextRev, fs, source, callers, db, hist>>

download(c, packages) ==
    /\ Idle(c)
    /\ Start(c, Return(Begin(c, "download", ""), Ok(Unit)))
    /\ UNCHANGED <<remote, nextRev, fs, source, callers, db, hist>>

\* get that looks at the first requested name and version only
get_result_first(pkg, packages) ==
    IF ~pkg.ok THEN pkg
    ELSE IF packages # <<>> /\ is_for_name_ver(pkg.val, Head(packages))
         THEN Ok(<<pkg.val>>) ELSE Ok(<<>>)

\* get: the package iff any requested name and version is for it
get_result(pkg, packages) ==
    IF ~pkg.ok THEN pkg
    ELSE IF any(packages, pkg.val) THEN Ok(<<pkg.val>>) ELSE Ok(<<>>)

get(c, packages) ==
    /\ Idle(c)
    /\ Start(c, Return([Begin(c, "get", "") EXCEPT !.req = packages],
                       get_result(read_manifest(fs[source.checkout_path]), packages)))
    /\ UNCHANGED <<remote, nextRev, fs, source, callers, db, hist>>

\* ------------------------------------------------------------ specification

Next ==
    \/ \E r \in RefNames : RemoteAdvance(r)
    \/ \E r \in RefNames : RemoteDelete(r)
    \/ \E c \in AllCallers : CallUpdate(c)
    \/ \E c \in AllCallers : CallCheckout(c)
    \/ \E c \in AllCallers, r \in RefNames : CallCopyTo(c, r)
    \/ \E c \in AllCallers : checkout(c)
    \/ \E c \in AllCallers : fetch_into(c)
    \/ \E c \in AllCallers : clone_into_mkdir(c)
    \/ \E c \in AllCallers : clone_into_git(c)
    \/ \E c \in AllCallers : clone_into_rev_for(c)
    \/ \E c \in AllCallers : clone_into_marker(c)
    \/ \E c \in AllCallers : clone_repo_mkdir(c)
    \/ \E c \in AllCallers : clone_repo_rmdir(c)
    \/ \E c \in AllCallers : clone_repo_git(c)
    \/ \E c \in AllCallers : clone_repo_chmod(c)
    \/ \E c \in AllCallers : fetch(c)
    \/ \E c \in AllCallers : reset(c)
    \/ \E c \in AllCallers : update_submodules(c)
    \/ \E c \in AllCallers : list(c)
    \/ \E c \in AllCallers, p \in ReqSeqs : download(c, p)
    \/ \E c \in AllCallers, p \in ReqSeqs : get(c, p)

Spec == Init /\ [][Next]_vars

\* Two callers share the source and its two paths; nothing in the code makes
\* one wait for the other, so their steps interleave freely.  Each caller makes
\* one round: update(), or Remote.checkout followed by one copy_to.  The remote
\* is left alone meanwhile.
InitConc == Init0 /\ callers = AllCallers

Step(c) ==
    \/ st[c].op = "none" /\ CallUpdate(c)
    \/ st[c].op = "none" /\ CallCheckout(c)
    \/ st[c].op = "checkout" /\ \E r \in RefNames : CallCopyTo(c, r)
    \/ checkout(c)
    \/ fetch_into(c)
    \/ clone_into_mkdir(c)
    \/ clone_into_git(c)
    \/ clone_into_rev_for(c)
    \/ clone_into_marker(c)
    \/ clone_repo_mkdir(c)
    \/ clone_repo_rmdir(c)
    \/ clone_repo_git(c)
    \/ clone_repo_chmod(c)
    \/ fetch(c)
    \/ reset(c)
    \/ update_submodules(c)

NextConc == \E c \in AllCallers : Step(c)

SpecConc == InitConc /\ [][NextConc]_vars

\* The construction of the source from a reference string, and the printing
\* of its reference, for strings around the name of the primary branch.
RefStrings ==
    {"master", "Master", "MASTER", "master ", " master", "maste", "masterr", "",
     "dev", "HEAD", "refs/heads/master", "origin/master"}

\* GitSource::new(remote, reference, db, checkout, verbose)
new(c, reference, checkout_path, verbose) ==
    /\ Idle(c)
    /\ source' = [remote |-> source.remote, reference |-> for_str(reference),
                  db_path |-> source.db_path, checkout_path |-> checkout_path,
                  verbose |-> verbose]
    /\ st' = [st EXCEPT ![c] = [NoCall EXCEPT !.op = "new", !.reference = reference]]
    /\ UNCHANGED <<remote, nextRev, fs, callers, prev, db, hist>>

\* impl Show for GitReference: self.as_slice().fmt(f)
fmt(c) ==
    /\ Idle(c)
    /\ st[c].op = "new"
    /\ st' = [st EXCEPT ![c].ret = Ok(as_slice(source.reference))]
    /\ UNCHANGED <<remote, nextRev, fs, source, callers, prev, db, hist>>

NextNew ==
    \/ \E c \in AllCallers, s \in RefStrings, co \in Paths, v \in BOOLEAN : new(c, s, co, v)
    \/ \E c \in AllCallers : fmt(c)

SpecNew == Init /\ [][NextNew]_vars

\* ------------------------------------------------------------------ claims

Returned(c) == c \in callers /\ st[c].pc = "done" /\ st[c].op # "none"

Succeeded(c, op) == Returned(c) /\ st[c].op = op /\ st[c].ret.ok

\* the working tree has its metadata marker and its files are those of rev
Pinned(dir, rev) == has_marker(dir) /\ rev \in Revs /\ dir.head = rev

Range(seq) == {seq[i] : i \in 1..Len(seq)}

IsMirrorCmd(cmd) == cmd \in {"fetch_into", "mkdir_mirror", "clone_bare"}

MirrorCmds(cmds) == SelectSeq(cmds, IsMirrorCmd)

C2_CheckoutBranch ==
    \A c \in callers : st[c].op \in {"checkout", "update"} =>
        LET m == MirrorCmds(st[c].cmds)
            returnedOk == IF st[c].op = "checkout" THEN Succeeded(c, "checkout")
                          ELSE st[c].pc = "rev_for" \/ "rev-parse" \in Range(st[c].cmds)
            database == [remote |-> source.remote, path |-> source.db_path,
                         verbose |-> source.remote.verbose]
        IN  /\ st[c].existed \in {"yes", "no"}
            /\ (st[c].existed = "yes" => m \in {<<>>, <<"fetch_into">>})
            /\ (st[c].existed = "no" =>
                   m \in {<<>>, <<"mkdir_mirror">>, <<"mkdir_mirror", "clone_bare">>})
            /\ (returnedOk =>
                   /\ m = IF st[c].existed = "yes" THEN <<"fetch_into">>
                          ELSE <<"mkdir_mirror", "clone_bare">>
                   /\ st[c].repo = database)
            /\ (Succeeded(c, "checkout") => st[c].ret.val = database /\ db[c] = database)

\* a Remote.checkout that fetched, right after one that cloned
C2_Witness ==
    \E c \in callers :
        /\ Succeeded(c, "checkout") /\ st[c].existed = "yes"
        /\ prev[c].op = "checkout" /\ prev[c].ok /\ prev[c].existed = "no"

\* Remote.checkout called right after a Remote.checkout that succeeded on a
\* path that did not exist
SecondCheckout(c) ==
    /\ Returned(c) /\ st[c].op = "checkout"
    /\ prev[c].op = "checkout" /\ prev[c].ok /\ prev[c].existed = "no"

\* C3: of two Remote.checkout calls in sequence on a path that did not exist,
\* the first is mkdir + clone and the second is one fetch; the second returns
\* success unless its command is made to fail, and the mirror then resolves
\* every reference as a mirror cloned and then fetched does.
C3_TwiceIsCloneThenFetch ==
    \A c \in callers : SecondCheckout(c) =>
        /\ prev[c].cmds = <<"mkdir_mirror", "clone_bare">>
        /\ st[c].cmds = <<"fetch_into">>
        /\ (~st[c].injected =>
               /\ st[c].ret.ok
               /\ \A r \in RefNames :
                     RevParse(fs[into], r) =
                     RevParse(FetchIntoResult(CloneBareResult(prev[c].seen), st[c].seen), r))

\* the second call succeeded and fetched a commit the clone did not have
C3_Witness ==
    \E c \in callers :
        /\ SecondCheckout(c) /\ st[c].ret.ok
        /\ st[c].seen # prev[c].seen

\* C4: once the mirror exists at the mirror path, no step of any operation
\* leaves the path without it.
C4_MirrorNeverDeleted ==
    [][fs[source.db_path].kind = "bare" => fs'[source.db_path].kind = "bare"]_vars

\* copy_to called right after a copy_to of the same reference that succeeded
RepeatedCopyTo(c) ==
    /\ Succeeded(c, "copy_to")
    /\ prev[c].op = "copy_to" /\ prev[c].ok

\* C5: every copy_to that succeeds returns its checkout and leaves the tree
\* reset to the checkout's revision, and a copy_to that follows a copy_to of
\* the same reference returns the same revision.
C5_CopyToTwiceSameRevision ==
    \A c \in callers :
        /\ Succeeded(c, "copy_to") =>
              /\ st[c].ret.val = st[c].checkout
              /\ Pinned(fs[source.checkout_path], RevOf(st[c].checkout.revision))
        /\ RepeatedCopyTo(c) => st[c].checkout.revision = prev[c].revision

\* the second copy_to found the tree of the first and returned
C5_Witness ==
    \E c \in callers : RepeatedCopyTo(c) /\ st[c].marker = "yes"

\* copy_to(Default) returned success, after an earlier copy_to(Default) had
\* succeeded and the remote's primary branch had then advanced
AgainAfterAdvance(c) ==
    /\ Succeeded(c, "copy_to")
    /\ for_str(st[c].reference) = Master
    /\ st[c].at.prevDefault # <<>>
    /\ st[c].at.advanced

\* C6 as stated: the second copy_to returns the remote's new tip and the tree
\* is reset to it.
C6_RevisionIsRemoteTip ==
    \A c \in callers : AgainAfterAdvance(c) =>
        /\ RevOf(st[c].checkout.revision) = st[c].at.tip
        /\ Pinned(fs[source.checkout_path], st[c].at.tip)

\* C6: the second copy_to returns the tip the mirror holds for the primary
\* branch and the tree is hard-reset to it; this is the remote's new tip, and
\* differs from the revision of the first copy_to, when Remote.checkout has
\* fetched the mirror since the advance.
C6_RevisionIsMirrorTip ==
    \A c \in callers : AgainAfterAdvance(c) =>
        LET rev == RevOf(st[c].checkout.revision)
        IN  /\ rev = fs[source.db_path].refs["master"]
            /\ Pinned(fs[source.checkout_path], rev)
            /\ (st[c].at.fresh =>
                   /\ rev = st[c].at.tip
                   /\ st[c].checkout.revision # st[c].at.prevDefault)

\* the mirror was fetched after the advance and the tree moved to the new tip
C6_Witness ==
    \E c \in callers : AgainAfterAdvance(c) /\ st[c].at.fresh /\ st[c].marker = "yes"

IsPrefix(a, b) == Len(a) <= Len(b) /\ a = SubSeq(b, 1, Len(a))

IsCopyCmd(cmd) == ~IsMirrorCmd(cmd)

CopyCmds(cmds) == SelectSeq(cmds, IsCopyCmd)

\* C7: a checkout constructed where the marker is present issues no mkdir,
\* rmdir, clone or chmod; it resolves the reference and then only fetches,
\* resets and updates submodules, and the working tree stays in place.
C7_MarkerSkipsClone ==
    \A c \in callers : st[c].marker = "yes" =>
        /\ Range(st[c].cmds) \cap {"mkdir_parent", "rmdir", "clone", "chmod"} = {}
        /\ IsPrefix(CopyCmds(st[c].cmds), <<"rev-parse", "fetch", "reset", "submodule">>)
        /\ st[c].pc \in {"marker", "fetch", "reset", "update_submodules", "done"}
        /\ has_marker(fs[source.checkout_path])

\* a copy_to that reused the tree and returned success
C7_Witness ==
    \E c \in callers :
        /\ Succeeded(c, "copy_to") /\ st[c].marker = "yes"
        /\ st[c].cmds = <<"rev-parse", "fetch", "reset", "submodule">>

\* how a caller can tell errors apart: the wrapper and what it wraps
ErrorClass(e) == IF e.kind = "human" THEN <<e.kind, e.cause.kind>> ELSE <<e.kind>>

\* rev-parse has been run for a reference the mirror does not have
Unresolved(c) ==
    /\ c \in callers
    /\ "rev-parse" \in Range(st[c].cmds)
    /\ fs[source.db_path].kind = "bare"
    /\ fs[source.db_path].refs[st[c].reference] = NoRev

RetryAfterFailure(c) ==
    /\ Succeeded(c, "copy_to")
    /\ prev[c].op = "copy_to" /\ ~prev[c].ok

\* C9: a copy_to that succeeds after a failed copy_to leaves the working tree
\* with its marker and reset to the revision the mirror has for the reference.
C9_RetryRepairs ==
    \A c \in callers : RetryAfterFailure(c) =>
        /\ Pinned(fs[source.checkout_path], RevOf(st[c].checkout.revision))
        /\ RevOf(st[c].checkout.revision) = fs[source.db_path].refs[st[c].reference]

\* the failed call stopped at the hard reset
C9_Witness ==
    \E c \in callers :
        /\ RetryAfterFailure(c)
        /\ prev[c].cmds[Len(prev[c].cmds)] = "reset"

\* C10: get returns an error exactly when the manifest cannot be read;
\* otherwise the one package of the manifest when some requested name and
\* version is its own, and nothing when none is.
C10_GetFilters ==
    \A c \in callers : (Returned(c) /\ st[c].op = "get") =>
        LET m == read_manifest(fs[source.checkout_path])
            req == st[c].req
            matches == \E i \in 1..Len(req) :
                          req[i].name = m.val.name /\ req[i].version = m.val.version
        IN  /\ st[c].ret.ok = m.ok
            /\ (~m.ok => st[c].ret = m)
            /\ (m.ok =>
                   /\ Len(st[c].ret.val) <= 1
                   /\ (matches => st[c].ret.val = <<m.val>>)
                   /\ (~matches => st[c].ret.val = <<>>))

\* the second of two requested packages is the one of the manifest
C10_Witness ==
    \E c \in callers :
        /\ Returned(c) /\ st[c].op = "get" /\ st[c].ret.ok
        /\ Len(st[c].req) = 2
        /\ st[c].ret.val = <<st[c].req[2]>>
        /\ st[c].req[1] # st[c].req[2]


\* A step in which caller c runs the adapter operation op from call to return.
AdapterStep(c, op) ==
    /\ st[c].pc = "done"
    /\ st'[c].op = op
    /\ st'[c].pc = "done"
    /\ <<st, prev>>' # <<st, prev>>

\* C11: download returns success whatever is requested and whatever the state
\* of the mirror and the working tree (before any update, after a failed one),
\* runs no command, and leaves the file system and the remote as they were.
C11_DownloadIsNoOp ==
    [][\A c \in callers :
         AdapterStep(c, "download") =>
           /\ st'[c].ret = Ok(Unit)
           /\ st'[c].cmds = <<>>
           /\ fs' = fs
           /\ remote' = remote]_vars

\* download has returned while the mirror path holds what a failed clone left
\* and there is no working tree
C11_Witness ==
    \E c \in callers :
      /\ Returned(c)
      /\ st[c].op = "download"
      /\ st[c].ret.ok
      /\ fs[source.db_path] = PlainDir(FALSE)
      /\ ~has_marker(fs[source.checkout_path])

\* C12: list and get, succeeding or failing, run no command and leave the
\* mirror and the working tree unchanged; a step that changes the file system
\* belongs to a caller that is inside update, Remote.checkout or copy_to.
C12_OnlyUpdateWrites ==
    [][/\ \A c \in callers :
            AdapterStep(c, "list") \/ AdapterStep(c, "get") =>
              /\ st'[c].cmds = <<>>
              /\ fs' = fs
              /\ remote' = remote
       /\ fs' # fs =>
            \E c \in callers :
              /\ st[c].op \in {"update", "checkout", "copy_to"}
              /\ st[c].pc # "done"
              /\ st'[c] # st[c]]_vars

\* list has failed where there is no working tree, and left none behind
C12_Witness ==
    \E c \in callers :
      /\ Returned(c)
      /\ st[c].op = "list"
      /\ ~st[c].ret.ok
      /\ fs[source.checkout_path] = Absent
      /\ fs[source.db_path].kind = "bare"


\* the steps of Remote.checkout on the mirror
InMirror(c) == st[c].pc \in {"fetch_into", "clone_into", "clone_into_git"}

\* C13: nothing guards the mirror.  A caller at the existence check, at the
\* mkdir or at the clone command can always take its step, whatever the other
\* caller is doing, so with the mirror path absent at first both callers can
\* pass the check before either creates the path and both go on to clone.
C13_MirrorIsUnguarded ==
    \A c \in callers :
      /\ At(c, "checkout") => ENABLED checkout(c)
      /\ At(c, "clone_into") => ENABLED clone_into_mkdir(c)
      /\ At(c, "clone_into_git") => ENABLED clone_into_git(c)

\* both callers found the mirror path absent and both have issued the clone
C13_Witness ==
    /\ \A c \in callers :
         /\ st[c].op \in {"update", "checkout"}
         /\ st[c].existed = "no"
         /\ "clone_bare" \in Range(st[c].cmds)
    /\ Cardinality(callers) = 2


\* caller c has returned successfully from copy_to (or update) and the
\* working tree is at the revision of its checkout
Holds(c) ==
    /\ Returned(c)
    /\ st[c].op \in {"update", "copy_to"}
    /\ st[c].ret.ok
    /\ Pinned(fs[location], RevOf(st[c].checkout.revision))

\* nobody's current call was hit by a failure from outside
NothingInjected == \A c \in callers : ~st[c].injected

\* C14: nothing guards the working tree.  The tree a caller's successful
\* copy_to left at its revision is taken away by a step of the other caller
\* only: the recursive removal in its clone_repo, which it reaches because it
\* tested for the marker before the tree was cloned (or its hard reset, when
\* that is interrupted).  So a returned success can stand for a tree that is
\* not at the revision, and a copy_to can fail with no command failing alone.
C14_TreeIsUnguarded ==
    [][\A c \in callers :
         Holds(c) /\ st'[c] = st[c]
                  /\ ~Pinned(fs'[location], RevOf(st[c].checkout.revision)) =>
           \E d \in callers \ {c} :
             \/ /\ st[d].pc = "clone_repo_rmdir"
                /\ st'[d].cmds = Append(st[d].cmds, "rmdir")
             \/ /\ st[d].pc = "reset"
                /\ st'[d].injected]_vars

\* one caller has returned success from copy_to, the other, which saw no
\* marker, has since removed the tree and is about to clone; no failure came
\* from outside
C14_Witness ==
    \E c \in callers, d \in callers :
      /\ Succeeded(c, "copy_to")
      /\ ~Pinned(fs[location], RevOf(st[c].checkout.revision))
      /\ st[d].op = "copy_to"
      /\ st[d].pc = "clone_repo_git"
      /\ "rmdir" \in Range(st[d].cmds)
      /\ NothingInjected

\* a copy_to has failed at its fetch although nothing failed from outside:
\* the other caller removed the tree under it
C14_FailsWithoutFault ==
    \E c \in callers, d \in callers :
      /\ Returned(c)
      /\ st[c].op = "copy_to"
      /\ ~st[c].ret.ok
      /\ st[c].cmds[Len(st[c].cmds)] = "fetch"
      /\ "rmdir" \in Range(st[d].cmds)
      /\ NothingInjected


\* C15: for every string s, for_str(s) is Master exactly when s = "master" and
\* Other(s) otherwise; as_slice gives back the string the reference was made
\* from; and for_str of what as_slice gives is the reference again.
C15_ReferenceRoundTrip ==
    \A c \in callers :
      st[c].op = "new" =>
        /\ source.reference = Master <=> st[c].reference = "master"
        /\ st[c].reference # "master" => source.reference = Other(st[c].reference)
        /\ st[c].ret.ok => st[c].ret.val = st[c].reference
        /\ for_str(as_slice(source.reference)) = source.reference

\* a source made from a string that differs from "master" only in case has a
\* named reference, and prints as that string
C15_Witness ==
    \E c \in callers :
      /\ st[c].op = "new"
      /\ st[c].reference = "Master"
      /\ source.reference = Other("Master")
      /\ st[c].ret = Ok("Master")


IsGitCmd(cmd) ==
    cmd \in {"fetch_into", "clone_bare", "rev-parse", "clone", "fetch", "reset", "submodule"}

GitCmds(cmds) == SelectSeq(cmds, IsGitCmd)

\* the git commands of one update, in order, for a mirror that existed or not
\* and a marker that was there or not
UpdateOrder(existed, marker) ==
    <<IF existed = "yes" THEN "fetch_into" ELSE "clone_bare", "rev-parse">>
    \o (IF marker = "no" THEN <<"clone">> ELSE <<>>)
    \o <<"fetch", "reset", "submodule">>

\* the arguments git is run with for a logged command
GitText(cmd) ==
    CASE cmd = "fetch_into" -> "fetch"
      [] cmd = "clone_bare" -> "clone --bare"
      [] cmd = "clone" -> "clone --no-checkout"
      [] cmd = "reset" -> "reset --hard"
      [] cmd = "submodule" -> "submodule update"
      [] OTHER -> cmd

Last(seq) == seq[Len(seq)]

\* C16: within one update the git commands are issued in the order mirror
\* clone or fetch, rev-parse, clone of the working tree (only where the marker
\* was absent), fetch, reset, submodule update, each at most once; a command is
\* issued only while nothing before it has failed; the command that fails is
\* the last one and its error is what update returns; success means all ran.
C16_UpdateOrder ==
    \A c \in callers : st[c].op = "update" =>
        /\ IsPrefix(GitCmds(st[c].cmds), UpdateOrder(st[c].existed, st[c].marker))
        /\ st[c].pc # "done" => ~st[c].injected
        /\ Returned(c) /\ st[c].ret.ok =>
             /\ ~st[c].injected
             /\ GitCmds(st[c].cmds) = UpdateOrder(st[c].existed, st[c].marker)
        /\ Returned(c) /\ ~st[c].ret.ok =>
             /\ st[c].cmds # <<>>
             /\ LET e == st[c].ret.err
                    last == Last(st[c].cmds)
                IN  IF e.kind = "human" /\ e.cause.kind = "process"
                    THEN IsGitCmd(last) /\ e.cause.cmd = GitText(last)
                    ELSE ~IsGitCmd(last)

\* an update that cloned the mirror and the working tree and failed at the
\* reset: the submodule update was not run
C16_Witness ==
    \E c \in callers :
      /\ Returned(c)
      /\ st[c].op = "update"
      /\ ~st[c].ret.ok
      /\ GitCmds(st[c].cmds) = <<"clone_bare", "rev-parse", "clone", "fetch", "reset">>
      /\ st[c].ret.err.cause = ProcessError("reset --hard")


Count(seq, x) == Cardinality({i \in DOMAIN seq : seq[i] = x})

\* the reference is resolved once, first of all, and the checkout made from it
ResolvedOnceFirst ==
    \A c \in callers : st[c].op \in {"update", "copy_to"} =>
        /\ Count(st[c].cmds, "rev-parse") <= 1
        /\ CopyCmds(st[c].cmds) # <<>> => CopyCmds(st[c].cmds)[1] = "rev-parse"
        /\ st[c].checkout # NoCheckout =>
             /\ Count(st[c].cmds, "rev-parse") = 1
             /\ st[c].checkout.reference = for_str(st[c].reference)

\* within a call the checkout, once made, stays as it is, and the step that
\* resets puts the working tree at the revision stored in it
RevisionKept ==
    \A c \in callers :
        /\ st[c].checkout # NoCheckout /\ st[c].pc # "done" =>
             st'[c].checkout = st[c].checkout
        /\ st[c].pc = "reset" /\ st'[c].pc = "update_submodules" =>
             /\ RevOf(st[c].checkout.revision) \in Revs
             /\ fs'[st[c].checkout.location].head = RevOf(st[c].checkout.revision)

\* C17: a copy_to resolves its reference exactly once, when the checkout is
\* constructed and before any clone or fetch of the working tree; the revision
\* stored in the checkout is never changed; the hard reset targets exactly
\* that revision.
C17_ResolvedOnce == []ResolvedOnceFirst /\ [][RevisionKept]_vars

\* a copy_to of a branch whose tip differs from that of the primary branch has
\* succeeded: the tree is at the revision resolved for the branch
C17_Witness ==
    \E c \in callers :
      /\ Succeeded(c, "copy_to")
      /\ st[c].reference = "dev"
      /\ fs[location].head = RevOf(st[c].checkout.revision)
      /\ fs[into].kind = "bare"
      /\ fs[into].refs["master"] # fs[into].refs["dev"]


\* the clone of clone_repo has succeeded in the call caller c is in or has
\* returned from
Cloned(c) ==
    /\ st[c].op \in {"update", "copy_to"}
    /\ "clone" \in Range(st[c].cmds)
    /\ \/ st[c].pc \in {"clone_repo_chmod", "fetch", "reset", "update_submodules"}
       \/ st[c].pc = "done" /\ "chmod" \in Range(st[c].cmds)

\* once cloned, the location is a working tree with nothing stale in it
FreshAfterClone ==
    \A c \in callers : Cloned(c) =>
        /\ has_marker(fs[st[c].checkout.location])
        /\ ~fs[st[c].checkout.location].stale

\* the removal is run exactly when the location exists; past it the location
\* is gone; the clone that follows fills it with the objects of the mirror
RemovalThenClone ==
    \A c \in callers :
        /\ st[c].pc = "clone_repo_rmdir" /\ st'[c] # st[c] =>
             /\ st'[c].cmds = Append(st[c].cmds, "rmdir")
                  <=> exists(fs[st[c].checkout.location])
             /\ st'[c].pc = "clone_repo_git" => fs'[st[c].checkout.location] = Absent
        /\ st[c].pc = "clone_repo_git" /\ st'[c].pc = "clone_repo_chmod" =>
             /\ fs[st[c].checkout.location] = Absent
             /\ fs'[st[c].checkout.location].kind = "work"
             /\ fs'[st[c].checkout.location].objs = fs[st[c].checkout.database.path].objs
             /\ ~fs'[st[c].checkout.location].stale

\* C18: where the location exists without marker, clone_repo removes it
\* recursively before it clones, so after a successful construction the
\* location holds the fresh clone and none of the stale content; the removal
\* is not run where the location does not exist.
C18_StaleRemoved == []FreshAfterClone /\ [][RemovalThenClone]_vars

\* a copy_to that found a directory without marker, removed it, cloned and
\* returned success
C18_Witness ==
    \E c \in callers :
      /\ Succeeded(c, "copy_to")
      /\ st[c].marker = "no"
      /\ IsPrefix(<<"rev-parse", "mkdir_parent", "rmdir", "clone">>, st[c].cmds)
      /\ has_marker(fs[location])
      /\ ~fs[location].stale


\* C19: where the reference cannot be resolved in the mirror, the construction
\* of the checkout stops at rev-parse and copy_to returns the error: the file
\* system is as it was (nothing created or removed at the location), and no
\* clone, fetch, reset or submodule update is run.
C19_UnresolvedLeavesDest ==
    [][\A c \in callers :
         st[c].pc = "rev_for" /\ st'[c] # st[c] =>
           /\ RevParse(fs[st[c].repo.path], st[c].reference).status # 0 =>
                st'[c].pc = "done"
           /\ st'[c].pc = "done" =>
                /\ ~st'[c].ret.ok
                /\ st'[c].checkout = NoCheckout
                /\ CopyCmds(st'[c].cmds) = <<"rev-parse">>
                /\ fs' = fs]_vars

\* a copy_to of a branch the mirror lacks has returned its error with
\* rev-parse as its only command; the working tree of an earlier copy_to is
\* still in place
C19_Witness ==
    \E c \in callers :
      /\ Unresolved(c)
      /\ Returned(c)
      /\ st[c].op = "copy_to"
      /\ ~st[c].ret.ok
      /\ ~st[c].injected
      /\ st[c].cmds = <<"rev-parse">>
      /\ has_marker(fs[location])
      /\ fs[location].head \in Revs


\* a Remote.checkout clones only where the path did not exist when it was
\* called, and where the path existed it does nothing but fetch
CloneOnlyIfAbsent ==
    \A c \in callers : st[c].op \in {"update", "checkout"} =>
        /\ Range(st[c].cmds) \cap {"mkdir_mirror", "clone_bare"} # {} =>
             /\ st[c].existed = "no"
             /\ IsPrefix(MirrorCmds(st[c].cmds), <<"mkdir_mirror", "clone_bare">>)
        /\ st[c].existed = "yes" => IsPrefix(MirrorCmds(st[c].cmds), <<"fetch_into">>)
        /\ st[c].pc = "clone_into_git" => exists(fs[into])

\* a clone that fails leaves the path in existence, and a path that exists
\* and is no repository stays so unless a clone is under way
FailedCloneLeavesPath ==
    /\ \A c \in callers :
         st[c].pc = "clone_into_git" /\ st'[c].pc = "done" /\ ~st'[c].ret.ok =>
           exists(fs'[into])
    /\ (fs[into].kind = "dir" /\ \A c \in callers : st[c].pc # "clone_into_git") =>
         fs'[into].kind = "dir"

\* C20: Remote.checkout issues a clone only on a path that did not exist when
\* it was called.  clone_into creates the path itself before the clone, so
\* after a clone that fails the path exists, and every later Remote.checkout
\* of that path fetches and does not clone again.
C20_NoSecondClone == []CloneOnlyIfAbsent /\ [][FailedCloneLeavesPath]_vars

\* a Remote.checkout whose clone failed, followed by one that found the path
\* and fetched
C20_Witness ==
    \E c \in callers :
      /\ Returned(c)
      /\ st[c].op = "checkout"
      /\ st[c].existed = "yes"
      /\ st[c].cmds = <<"fetch_into">>
      /\ prev[c].op = "checkout"
      /\ ~prev[c].ok
      /\ prev[c].existed = "no"
      /\ prev[c].cmds = <<"mkdir_mirror", "clone_bare">>

====
